---------------------------- MODULE Spec2Model ----------------------------
(***************************************************************************)
(* State-machine model of SphericalWave                                    *)
(* (src/src/propagation/model/waves/spherical_wave.py).                    *)
(*                                                                         *)
(* Number representation (exact, no floating point):                       *)
(*   - a complex sample is <<re, im, den>>, the value (re + i*im)/den with *)
(*     den a power of two; den = 0 is NaN (numpy's nan+nanj);              *)
(*   - a real sample is <<num, den>>, the value num/den; den = 0 is NaN;   *)
(*   - a matrix is a sequence of rows;                                     *)
(*   - angles are counted in eighths of a turn (pi/4), truncated toward    *)
(*     zero, so np.angle has range -3..4, i.e. (-pi, pi];                  *)
(*   - the argument of exp(1j*x) is counted in quarter turns, truncated    *)
(*     toward zero, so exp(1j*x) is one of 1, i, -1, -i, or NaN.           *)
(* Lengths (wavelength, pixel size, distances) are integers in one common  *)
(* length unit.                                                            *)
(***************************************************************************)
EXTENDS Integers, Sequences, FiniteSets, TLC

(***************************************************************************)
(* Bounds of the model                                                     *)
(***************************************************************************)
\* number of operations performed on one wave
MaxSteps == 2
\* largest propagation distance z handed to propagate_on_distance
MaxZ == 2

(***************************************************************************)
(* Integer helpers                                                         *)
(***************************************************************************)
Abs(n) == IF n < 0 THEN -n ELSE n

Max(a, b) == IF a >= b THEN a ELSE b

\* a / b truncated toward zero, for b # 0
TruncDiv(a, b) ==
    IF (a >= 0) = (b > 0) THEN Abs(a) \div Abs(b) ELSE -(Abs(a) \div Abs(b))

\* floor of the square root of n >= 0
ISqrt(n) == CHOOSE r \in 0..n : r * r <= n /\ (r + 1) * (r + 1) > n

RECURSIVE Pow2(_)
Pow2(e) == IF e <= 0 THEN 1 ELSE 2 * Pow2(e - 1)

(***************************************************************************)
(* Complex and real samples                                                *)
(***************************************************************************)
CNaN == <<0, 0, 0>>

RNaN == <<0, 0>>

IsCNaN(c) == c[3] = 0

IsRNaN(r) == r[2] = 0

RECURSIVE CNorm(_)
CNorm(c) ==
    IF c[3] > 1 /\ c[1] % 2 = 0 /\ c[2] % 2 = 0
    THEN CNorm(<<c[1] \div 2, c[2] \div 2, c[3] \div 2>>)
    ELSE c

RECURSIVE RNorm(_)
RNorm(r) ==
    IF r[2] > 1 /\ r[1] % 2 = 0
    THEN RNorm(<<r[1] \div 2, r[2] \div 2>>)
    ELSE r

CAdd(a, b) ==
    IF IsCNaN(a) \/ IsCNaN(b) THEN CNaN
    ELSE LET d == Max(a[3], b[3])
         IN  CNorm(<<a[1] * (d \div a[3]) + b[1] * (d \div b[3]),
                     a[2] * (d \div a[3]) + b[2] * (d \div b[3]), d>>)

CNeg(a) == IF IsCNaN(a) THEN CNaN ELSE <<-a[1], -a[2], a[3]>>

CSub(a, b) == CAdd(a, CNeg(b))

CMul(a, b) ==
    IF IsCNaN(a) \/ IsCNaN(b) THEN CNaN
    ELSE CNorm(<<a[1] * b[1] - a[2] * b[2], a[1] * b[2] + a[2] * b[1],
                 a[3] * b[3]>>)

\* c / n for n a power of two
CDiv(c, n) == IF IsCNaN(c) THEN CNaN ELSE CNorm(<<c[1], c[2], c[3] * n>>)

\* np.exp(1j * x) for a real sample x = <<t, 1>> given in quarter turns
Cis(x) ==
    IF IsRNaN(x) THEN CNaN
    ELSE CASE x[1] % 4 = 0 -> <<1, 0, 1>>
           [] x[1] % 4 = 1 -> <<0, 1, 1>>
           [] x[1] % 4 = 2 -> <<-1, 0, 1>>
           [] OTHER        -> <<0, -1, 1>>

\* np.angle of one sample, in eighths of a turn, truncated toward zero
AngleUpper(re, im) ==
    CASE re > 0 -> IF im < re THEN 0 ELSE 1
      [] re = 0 -> IF im = 0 THEN 0 ELSE 2
      [] OTHER  -> IF im = 0 THEN 4 ELSE IF im <= -re THEN 3 ELSE 2

Angle(c) ==
    IF IsCNaN(c) THEN RNaN
    ELSE IF c[2] >= 0 THEN <<AngleUpper(c[1], c[2]), 1>>
    ELSE <<-AngleUpper(c[1], -c[2]), 1>>

\* np.abs(c) ** 2 of one sample
AbsSq(c) ==
    IF IsCNaN(c) THEN RNaN
    ELSE RNorm(<<c[1] * c[1] + c[2] * c[2], c[3] * c[3]>>)

\* real sample times real sample (phase * mask)
RMul(a, b) ==
    IF IsRNaN(a) \/ IsRNaN(b) THEN RNaN ELSE RNorm(<<a[1] * b[1], a[2] * b[2]>>)

(***************************************************************************)
(* Matrices                                                                *)
(***************************************************************************)
Rows(m) == Len(m)

Cols(m) == Len(m[1])

Shape(m) == <<Rows(m), Cols(m)>>

\* the h-by-w matrix with entries F(i, j), built as a tuple of tuples
Matrix(h, w, F(_, _)) ==
    SubSeq([i \in 1..h |-> SubSeq([j \in 1..w |-> F(i, j)], 1, w)], 1, h)

MapMatrix(m, F(_)) == Matrix(Rows(m), Cols(m), LAMBDA i, j : F(m[i][j]))

(***************************************************************************)
(* numpy.fft on axes of length 1 and 2 (the only roots of unity are +-1)   *)
(***************************************************************************)
DftAxis(s) == IF Len(s) = 1 THEN <<s[1]>> ELSE <<CAdd(s[1], s[2]), CSub(s[1], s[2])>>

Transpose(m) == Matrix(Cols(m), Rows(m), LAMBDA i, j : m[j][i])

DftRows(m) == SubSeq([i \in 1..Rows(m) |-> DftAxis(m[i])], 1, Rows(m))

\* numpy.fft.fft2: the transform along the last axis, then along the first
fft2(m) == Transpose(DftRows(Transpose(DftRows(m))))

\* numpy.fft.ifft2: the same sums (the conjugate roots of +-1 are +-1),
\* divided by the number of samples
ifft2(m) ==
    MapMatrix(Transpose(DftRows(Transpose(DftRows(m)))),
              LAMBDA c : CDiv(c, Rows(m) * Cols(m)))

\* numpy.fft.fftshift along one axis: out[i] = in[(i - n // 2) mod n]
ShiftAxis(s) ==
    SubSeq([i \in 1..Len(s) |-> s[((i - 1 - (Len(s) \div 2)) % Len(s)) + 1]], 1, Len(s))

\* numpy.fft.fftshift of a matrix: both axes
fftshift(m) ==
    LET r == ShiftAxis(m) IN SubSeq([i \in 1..Rows(m) |-> ShiftAxis(r[i])], 1, Rows(m))

(***************************************************************************)
(* Collaborators outside spherical_wave.py                                 *)
(***************************************************************************)
\* Area: pixel_size and the shape of coordinate_grid.  The grid is centred
\* at the origin; coordinates are kept doubled so that they stay integers:
\* x_grid[i][j] = X2(area)[i][j] / 2.
X2(a) == Matrix(a.rows, a.cols, LAMBDA i, j : (2 * (j - 1) - a.cols) * a.pixel_size)

Y2(a) == Matrix(a.rows, a.cols, LAMBDA i, j : (2 * (i - 1) - a.rows) * a.pixel_size)

\* units.px2m
px2m(px, px_size_m) == px * px_size_m

\* gauss_2d(x, y, wx, wy) with values in [0, 1]: 4^-e, where e is the whole
\* part of (x/wx)^2 + (y/wy)^2, at most 2.  Arguments: doubled coordinates
\* and four times the widths.
gauss_2d(x2, y2, wx4, wy4) ==
    Matrix(Rows(x2), Cols(x2),
           LAMBDA i, j :
             LET e == (4 * x2[i][j] * x2[i][j]) \div (wx4 * wx4)
                      + (4 * y2[i][j] * y2[i][j]) \div (wy4 * wy4)
             IN  <<1, Pow2(2 * (IF e > 2 THEN 2 ELSE e))>>)

(***************************************************************************)
(* SphericalWave.__init__                                                  *)
(***************************************************************************)
\* np.sqrt of a non-negative real sample
RSqrt(r) == IF IsRNaN(r) \/ r[1] < 0 THEN RNaN ELSE <<ISqrt(r[1]), ISqrt(r[2])>>

\* the constructor raises where the interpreter does: 2 * np.pi / 0
InitRaises(wl) == wl = 0

InitIntensity(a, gwp) ==
    gauss_2d(X2(a), Y2(a), px2m(gwp, a.pixel_size), px2m(gwp, a.pixel_size))

\* -k * radius_vector in quarter turns: -(4 / wavelength) * sqrt(x^2+y^2+f^2)
InitArgument(a, fl, wl) ==
    LET x == X2(a)
        y == Y2(a)
    IN  Matrix(a.rows, a.cols,
               LAMBDA i, j :
                 <<-TruncDiv(2 * ISqrt(x[i][j] * x[i][j] + y[i][j] * y[i][j]
                                       + 4 * fl * fl), wl), 1>>)

\* np.sqrt(intensity) * np.exp(-1j * k * radius_vector)
InitField(a, fl, gwp, wl) ==
    LET amp == MapMatrix(InitIntensity(a, gwp), RSqrt)
        arg == InitArgument(a, fl, wl)
    IN  Matrix(a.rows, a.cols,
               LAMBDA i, j : CMul(<<amp[i][j][1], 0, amp[i][j][2]>>, Cis(arg[i][j])))

(***************************************************************************)
(* SphericalWave.__angular_spectrum_propagation                            *)
(***************************************************************************)
\* np.arange(-n / 2, n / 2), doubled: the frequency is Nu2(n)[j] / (2*n*pixel_size)
Nu2(n) == SubSeq([j \in 1..n |-> 2 * (j - 1) - n], 1, n)

\* np.meshgrid(nu_x, nu_y) followed by fftshift of both grids
NuXGrid(h, w) == fftshift(Matrix(h, w, LAMBDA i, j : Nu2(w)[j]))

NuYGrid(h, w) == fftshift(Matrix(h, w, LAMBDA i, j : Nu2(h)[i]))

\* 1 - (wavelength*nu_x)^2 - (wavelength*nu_y)^2 as <<numerator, denominator>>
\* over the common denominator (2*h*w*pixel_size)^2
Radicand(h, w, px, wl) ==
    LET nx == NuXGrid(h, w)
        ny == NuYGrid(h, w)
        d  == 2 * h * w * px
    IN  Matrix(h, w,
               LAMBDA i, j :
                 <<d * d - (wl * nx[i][j] * h) * (wl * nx[i][j] * h)
                         - (wl * ny[i][j] * w) * (wl * ny[i][j] * w),
                   d * d>>)

\* np.sqrt of a real array: NaN where the radicand is negative
ExpTerm(h, w, px, wl) == MapMatrix(Radicand(h, w, px, wl), RSqrt)

\* wave_number * z * exp_term in quarter turns, wave_number = 4 / wavelength
HArgument(e, z, wl) ==
    IF IsRNaN(e) THEN RNaN ELSE <<TruncDiv(4 * z * e[1], wl * e[2]), 1>>

\* h = np.exp(1j * wave_number * z * exp_term)
TransferFunction(h, w, px, wl, z) ==
    MapMatrix(ExpTerm(h, w, px, wl), LAMBDA e : Cis(HArgument(e, z, wl)))

MulMatrix(a, b) == Matrix(Rows(a), Cols(a), LAMBDA i, j : CMul(a[i][j], b[i][j]))

\* the propagated field: ifft2(fft2(field) * h)
AngularSpectrum(f, px, wl, z) ==
    LET spectrum == fft2(f)
        h        == TransferFunction(Rows(f), Cols(f), px, wl, z)
    IN  ifft2(MulMatrix(spectrum, h))

AngleOf(f) == MapMatrix(f, Angle)

AbsSqOf(f) == MapMatrix(f, AbsSq)

(***************************************************************************)
(* Aperture (collaborator) and skimage's unwrap_phase                      *)
(***************************************************************************)
None == "None"

ApertureIds == {"ap1", "ap2"}

Ones(h, w) == Matrix(h, w, LAMBDA i, j : <<1, 1>>)

\* the mask that keeps only the sample at the origin of the grid
Centre(h, w) == Matrix(h, w, LAMBDA i, j : IF i = h /\ j = w THEN <<1, 1>> ELSE <<0, 1>>)

\* Aperture.modify_aperture(wave): the aperture adapts its own mask (of the
\* shape of the wave's field) and diameter; which of its candidate masks it
\* settles on is the optimiser's choice.
ModifyOutcomes(f, a) ==
    { [aperture |-> Ones(Rows(f), Cols(f)), aperture_diameter |-> Cols(f) * a.pixel_size],
      [aperture |-> Centre(Rows(f), Cols(f)), aperture_diameter |-> a.pixel_size] }

\* numpy's elementwise product of two real matrices, with broadcasting of an
\* axis of length 1 (axes are 1 or 2 long here, so shapes always broadcast)
BroadcastMul(a, b) ==
    Matrix(Max(Rows(a), Rows(b)), Max(Cols(a), Cols(b)),
           LAMBDA i, j :
             RMul(a[IF Rows(a) = 1 THEN 1 ELSE i][IF Cols(a) = 1 THEN 1 ELSE j],
                  b[IF Rows(b) = 1 THEN 1 ELSE i][IF Cols(b) = 1 THEN 1 ELSE j]))

RHasNaN(m) == \E i \in 1..Rows(m) : \E j \in 1..Cols(m) : IsRNaN(m[i][j])

\* a phase difference in eighths of a turn wrapped into (-4, 4]
WrapDiff(d) == IF d > 4 THEN d - 8 ELSE IF d <= -4 THEN d + 8 ELSE d

\* unwrap_phase: down the first column, then along every row, each sample
\* taken within half a turn of the sample before it
UnwrapColumn(m) ==
    IF Rows(m) = 1 THEN <<m[1][1][1]>>
    ELSE <<m[1][1][1], m[1][1][1] + WrapDiff(m[2][1][1] - m[1][1][1])>>

unwrap_phase(m) ==
    IF RHasNaN(m) THEN MapMatrix(m, LAMBDA r : RNaN)
    ELSE LET c == UnwrapColumn(m)
         IN  Matrix(Rows(m), Cols(m),
                    LAMBDA i, j :
                      IF j = 1 THEN <<c[i], 1>>
                      ELSE <<c[i] + WrapDiff(m[i][2][1] - m[i][1][1]), 1>>)

\* calc_amplitude: peak-to-valley of the unwrapped phase (eighths of a turn)
Entries(m) == {m[i][j] : i \in 1..Rows(m), j \in 1..Cols(m)}

calc_amplitude(m) ==
    IF RHasNaN(m) THEN RNaN
    ELSE LET v  == {e[1] : e \in Entries(m)}
             hi == CHOOSE x \in v : \A y \in v : y <= x
             lo == CHOOSE x \in v : \A y \in v : x <= y
         IN  <<hi - lo, 1>>

\* units.rad2mm: phase (eighths of a turn) to millimetres of path
rad2mm(a, wl) == IF IsRNaN(a) THEN RNaN ELSE <<a[1] * wl * 125, 1>>

\* units.m2mm
m2mm(x) == x * 1000

\* calculate_radius(s, d) = (s^2 + (d/2)^2) / (2 s) as <<numerator, denominator>>;
\* a zero sagitta leaves the denominator 0 (no finite radius)
calculate_radius(s, d) ==
    IF IsRNaN(s) THEN RNaN ELSE <<4 * s[1] * s[1] + d * d, 8 * s[1]>>

(***************************************************************************)
(* Inputs                                                                  *)
(***************************************************************************)
Areas ==
    { [pixel_size |-> 1, rows |-> 2, cols |-> 2],
      [pixel_size |-> 2, rows |-> 1, cols |-> 2] }

Wavelengths == {-1, 0, 1, 2}

InitDistances == {-1, 0}

Methods == {"angular_spectrum", "fresnel"}

FieldInputs ==
    { <<<< <<1, 0, 1>>, <<0, 1, 1>> >>>>,
      << << <<1, 0, 1>>, <<1, 1, 1>> >>, << <<0, -1, 1>>, <<0, 0, 1>> >> >> }

PhaseInputs ==
    { <<<< <<1, 1>>, <<-2, 1>> >>>>,
      << << <<3, 1>>, <<0, 1>> >>, << <<4, 1>>, <<-1, 1>> >> >> }

IntensityInputs == { <<<< <<1, 1>>, <<3, 1>> >>>> }

FocalLens == {2}

GaussianWidths == {2}

(***************************************************************************)
(* State                                                                   *)
(***************************************************************************)
VARIABLES
    alive,                  \* FALSE when __init__ raised: there is no wave
    ctor,                   \* the arguments __init__ was called with
    area,                   \* self.__area
    focal_len,              \* self.__focal_len
    gaussian_width_param,   \* self.__gaussian_width_param
    wavelength,             \* self.__wavelength
    distance,               \* self.__distance
    intensity,              \* self.__intensity
    field,                  \* self.__field
    phase,                  \* self.__phase
    apertures,              \* the Aperture objects a caller may pass in
    last,                   \* what the last call did, as its caller sees it
    travelled,              \* sum of z over the propagations carried out
    overridden,             \* the phase or intensity setter has been used
    steps                   \* calls made so far

wave == <<area, focal_len, gaussian_width_param, wavelength, distance,
          intensity, field, phase>>

vars == <<alive, ctor, wave, apertures, last, travelled, overridden, steps>>

Null == <<>>

Call(op, arg, raised, ret, pre, aux) ==
    [op |-> op, arg |-> arg, raised |-> raised, ret |-> ret, pre |-> pre, aux |-> aux]

Snapshot == [field |-> field, phase |-> phase, intensity |-> intensity,
             distance |-> distance]

InitAperture(a) ==
    [aperture |-> Ones(a.rows, a.cols), aperture_diameter |-> a.cols * a.pixel_size,
     calls |-> 0]

\* the state SphericalWave(c.area, c.focal_len, c.gaussian_width_param,
\* c.wavelength, c.distance) leaves behind
Construct(c) ==
    /\ ctor = c
    /\ area = c.area
    /\ focal_len = c.focal_len
    /\ gaussian_width_param = c.gaussian_width_param
    /\ wavelength = c.wavelength
    /\ distance = c.distance
    /\ intensity = InitIntensity(c.area, c.gaussian_width_param)
    /\ alive = ~InitRaises(c.wavelength)
    /\ field = IF InitRaises(c.wavelength) THEN Null
               ELSE InitField(c.area, c.focal_len, c.gaussian_width_param, c.wavelength)
    /\ phase = IF InitRaises(c.wavelength) THEN Null
               ELSE AngleOf(InitField(c.area, c.focal_len, c.gaussian_width_param,
                                      c.wavelength))
    /\ apertures = [id \in ApertureIds |-> InitAperture(c.area)]
    /\ last = Call("__init__", Null,
                   IF InitRaises(c.wavelength) THEN "ZeroDivisionError" ELSE "",
                   Null, Null, Null)
    /\ travelled = 0
    /\ overridden = FALSE
    /\ steps = 0

CtorArgs ==
    [area : Areas, focal_len : {1}, gaussian_width_param : {4},
     wavelength : Wavelengths, distance : InitDistances]

\* arguments with a positive wavelength and a non-negative distance
PhysicalArgs == {c \in CtorArgs : c.wavelength > 0 /\ c.distance >= 0}

Init ==
    \/ \E c \in PhysicalArgs : Construct(c)
    \/ \E c \in CtorArgs \ PhysicalArgs : Construct(c)

Ready == alive /\ steps < MaxSteps

(***************************************************************************)
(* propagate_on_distance                                                   *)
(***************************************************************************)
\* the state the call leaves behind: <<field, phase, intensity>>, or the
\* name of the exception it raises
PropagateResult(z, method) ==
    IF method # "angular_spectrum" THEN <<field, phase, intensity>>
    ELSE IF wavelength = 0 THEN "ZeroDivisionError"
    ELSE LET f == AngularSpectrum(field, area.pixel_size, wavelength, z)
         IN  <<f, AngleOf(f), AbsSqOf(f)>>

\* what the caller gets back: "" for a normal return of None
PropagateRaised(z, method) ==
    IF method = "angular_spectrum" /\ wavelength = 0 THEN "ZeroDivisionError" ELSE ""

Propagate(z, method) ==
    /\ Ready
    /\ LET raised == PropagateRaised(z, method)
           ran    == method = "angular_spectrum" /\ raised = ""
           res    == PropagateResult(z, method)
       IN  /\ field' = IF raised = "" THEN res[1] ELSE field
           /\ phase' = IF raised = "" THEN res[2] ELSE phase
           /\ intensity' = IF raised = "" THEN res[3] ELSE intensity
           /\ travelled' = IF ran THEN travelled + z ELSE travelled
           /\ last' = Call("propagate_on_distance", [z |-> z, method |-> method],
                           raised, Null, Snapshot,
                           IF ran
                           THEN [radicand |-> Radicand(Rows(field), Cols(field),
                                                       area.pixel_size, wavelength),
                                 h |-> TransferFunction(Rows(field), Cols(field),
                                                        area.pixel_size, wavelength, z)]
                           ELSE Null)
    /\ steps' = steps + 1
    /\ UNCHANGED <<alive, ctor, area, focal_len, gaussian_width_param, wavelength,
                   distance, apertures, overridden>>

(***************************************************************************)
(* get_wrapped_phase, get_unwrapped_phase, get_wavefront_radius            *)
(***************************************************************************)
\* Python's truth value of the aperture argument: None is false, an
\* Aperture object is true
Truthy(ap) == ap # None

\* the aperture object after one modify_aperture call that settles on `out`
ModifyAperture(obj, out) ==
    [aperture |-> out.aperture, aperture_diameter |-> out.aperture_diameter,
     calls |-> obj.calls + 1]

\* variant: the mask is read before modify_aperture has run
MaskedPhaseBeforeAdaptation(ph, before, after) == BroadcastMul(ph, before.aperture)

\* self.__phase * aperture.aperture, read after aperture.modify_aperture(self);
\* `before` and `after` are the aperture object before and after that call
MaskedPhase(ph, before, after) == BroadcastMul(ph, after.aperture)

GetWrappedPhase(ap) ==
    /\ Ready
    /\ IF Truthy(ap)
       THEN \E out \in ModifyOutcomes(field, area) :
               LET after == ModifyAperture(apertures[ap], out)
               IN  /\ apertures' = [apertures EXCEPT ![ap] = after]
                   /\ last' = Call("get_wrapped_phase", ap, "",
                                   MaskedPhase(phase, apertures[ap], after),
                                   apertures, Null)
       ELSE /\ apertures' = apertures
            /\ last' = Call("get_wrapped_phase", ap, "", phase, apertures, Null)
    /\ steps' = steps + 1
    /\ UNCHANGED <<alive, ctor, wave, travelled, overridden>>

\* the aperture get_unwrapped_phase hands back with the unwrapped phase
ReturnedAperture(ap) == ap

GetUnwrappedPhase(ap) ==
    /\ Ready
    /\ IF Truthy(ap)
       THEN \E out \in ModifyOutcomes(field, area) :
               LET after == ModifyAperture(apertures[ap], out)
               IN  /\ apertures' = [apertures EXCEPT ![ap] = after]
                   /\ last' = Call("get_unwrapped_phase", ap, "",
                                   <<unwrap_phase(MaskedPhase(phase, apertures[ap], after)),
                                     ReturnedAperture(ap)>>,
                                   apertures, Null)
       ELSE /\ apertures' = apertures
            /\ last' = Call("get_unwrapped_phase", ap, "",
                            <<unwrap_phase(phase), ReturnedAperture(ap)>>, apertures, Null)
    /\ steps' = steps + 1
    /\ UNCHANGED <<alive, ctor, wave, travelled, overridden>>

\* variant: the diameter is read before the aperture has been adapted
ApDiameterBeforeAdaptation(before, after) == m2mm(before.aperture_diameter)

\* units.m2mm(new_aperture.aperture_diameter), read after get_unwrapped_phase
\* has returned; `before` and `after` as in MaskedPhase
ApDiameter(before, after) == m2mm(after.aperture_diameter)

GetWavefrontRadius(ap) ==
    /\ Ready
    /\ IF Truthy(ap)
       THEN \E out \in ModifyOutcomes(field, area) :
               LET after       == ModifyAperture(apertures[ap], out)
                   cut_phase   == unwrap_phase(MaskedPhase(phase, apertures[ap], after))
                   sagitta     == rad2mm(calc_amplitude(cut_phase), wavelength)
                   ap_diameter == ApDiameter(apertures[ap], after)
               IN  /\ apertures' = [apertures EXCEPT ![ap] = after]
                   /\ last' = Call("get_wavefront_radius", ap, "",
                                   calculate_radius(sagitta, ap_diameter),
                                   apertures,
                                   [cut_phase |-> cut_phase, sagitta |-> sagitta,
                                    ap_diameter |-> ap_diameter])
       ELSE \* None has no aperture_diameter
            /\ apertures' = apertures
            /\ last' = Call("get_wavefront_radius", ap, "AttributeError", Null, apertures, Null)
    /\ steps' = steps + 1
    /\ UNCHANGED <<alive, ctor, wave, travelled, overridden>>

(***************************************************************************)
(* Property setters                                                        *)
(***************************************************************************)
SetField(f) ==
    /\ Ready
    /\ field' = f
    /\ last' = Call("field.setter", f, "", Null, Null, Null)
    /\ steps' = steps + 1
    /\ UNCHANGED <<alive, ctor, area, focal_len, gaussian_width_param, wavelength,
                   distance, intensity, phase, apertures, travelled, overridden>>

SetArea(a) ==
    /\ Ready
    /\ area' = a
    /\ last' = Call("area.setter", a, "", Null, Null, Null)
    /\ steps' = steps + 1
    /\ UNCHANGED <<alive, ctor, focal_len, gaussian_width_param, wavelength,
                   distance, intensity, field, phase, apertures, travelled, overridden>>

SetPhase(p) ==
    /\ Ready
    /\ phase' = p
    /\ overridden' = TRUE
    /\ last' = Call("phase.setter", p, "", Null, Null, Null)
    /\ steps' = steps + 1
    /\ UNCHANGED <<alive, ctor, area, focal_len, gaussian_width_param, wavelength,
                   distance, intensity, field, apertures, travelled>>

SetIntensity(v) ==
    /\ Ready
    /\ intensity' = v
    /\ overridden' = TRUE
    /\ last' = Call("intensity.setter", v, "", Null, Null, Null)
    /\ steps' = steps + 1
    /\ UNCHANGED <<alive, ctor, area, focal_len, gaussian_width_param, wavelength,
                   distance, field, phase, apertures, travelled>>

SetWavelength(wl) ==
    /\ Ready
    /\ wavelength' = wl
    /\ last' = Call("wavelength.setter", wl, "", Null, Null, Null)
    /\ steps' = steps + 1
    /\ UNCHANGED <<alive, ctor, area, focal_len, gaussian_width_param, distance,
                   intensity, field, phase, apertures, travelled, overridden>>

SetFocalLen(fl) ==
    /\ Ready
    /\ focal_len' = fl
    /\ last' = Call("focal_len.setter", fl, "", Null, Null, Null)
    /\ steps' = steps + 1
    /\ UNCHANGED <<alive, ctor, area, gaussian_width_param, wavelength, distance,
                   intensity, field, phase, apertures, travelled, overridden>>

SetGaussianWidthParam(g) ==
    /\ Ready
    /\ gaussian_width_param' = g
    /\ last' = Call("gaussian_width_param.setter", g, "", Null, Null, Null)
    /\ steps' = steps + 1
    /\ UNCHANGED <<alive, ctor, area, focal_len, wavelength, distance,
                   intensity, field, phase, apertures, travelled, overridden>>

(***************************************************************************)
(* Property getters                                                        *)
(***************************************************************************)
\* variant: the phase property returns the stored self.__phase
StoredPhaseGetter == phase

\* the phase property: np.angle(self.__field)
PhaseGetter == AngleOf(field)

\* the intensity property: np.abs(self.__field) ** 2
IntensityGetter == AbsSqOf(field)

\* the distance property
DistanceGetter == distance

Get(name, value) ==
    /\ Ready
    /\ last' = Call(name, Null, "", value, Null, Null)
    /\ steps' = steps + 1
    /\ UNCHANGED <<alive, ctor, wave, apertures, travelled, overridden>>

GetField == Get("field", field)

GetArea == Get("area", area)

GetPhase == Get("phase", PhaseGetter)

GetIntensity == Get("intensity", IntensityGetter)

GetWavelength == Get("wavelength", wavelength)

GetFocalLen == Get("focal_len", focal_len)

GetGaussianWidthParam == Get("gaussian_width_param", gaussian_width_param)

GetDistance == Get("distance", DistanceGetter)

Next ==
    \/ \E z \in 0..MaxZ, method \in Methods : Propagate(z, method)
    \/ \E ap \in ApertureIds \cup {None} : GetWrappedPhase(ap)
    \/ \E ap \in ApertureIds \cup {None} : GetUnwrappedPhase(ap)
    \/ \E ap \in ApertureIds \cup {None} : GetWavefrontRadius(ap)
    \/ \E f \in FieldInputs : SetField(f)
    \/ \E a \in Areas : SetArea(a)
    \/ \E p \in PhaseInputs : SetPhase(p)
    \/ \E v \in IntensityInputs : SetIntensity(v)
    \/ \E wl \in Wavelengths : SetWavelength(wl)
    \/ \E fl \in FocalLens : SetFocalLen(fl)
    \/ \E g \in GaussianWidths : SetGaussianWidthParam(g)
    \/ GetField
    \/ GetArea
    \/ GetPhase
    \/ GetIntensity
    \/ GetWavelength
    \/ GetFocalLen
    \/ GetGaussianWidthParam
    \/ GetDistance

Spec == Init /\ [][Next]_vars

(***************************************************************************)
(* Properties                                                              *)
(***************************************************************************)
Propagated == last.op = "propagate_on_distance"

AngularRan ==
    Propagated /\ last.arg.method = "angular_spectrum" /\ last.raised = ""

Samples(m) == {<<i, j>> : i \in 1..Rows(m), j \in 1..Cols(m)}

\* C1: propagate_on_distance with a method other than 'angular_spectrum'
\* raises an error to the caller and leaves field, phase, intensity and
\* distance as they were.
C1_UnknownMethodRaises ==
    (Propagated /\ last.arg.method # "angular_spectrum")
        => /\ last.raised # ""
           /\ field = last.pre.field
           /\ phase = last.pre.phase
           /\ intensity = last.pre.intensity
           /\ distance = last.pre.distance

\* C2: the distance accessor returns the initial distance plus the sum of
\* the distances of all propagations carried out.
C2_DistanceCumulative == alive => DistanceGetter = ctor.distance + travelled

\* C3: as long as neither the phase nor the intensity setter has been used,
\* the stored phase is angle(field) and the stored intensity is |field|^2.
C3_StoredFollowsField ==
    (alive /\ ~overridden) => (phase = AngleOf(field) /\ intensity = AbsSqOf(field))

\* C4: construction with wavelength <= 0 or a negative distance raises, and
\* no wave ever has wavelength <= 0.
C4_InvalidParametersRejected ==
    /\ (ctor.wavelength <= 0 \/ ctor.distance < 0) => ~alive
    /\ alive => wavelength > 0

\* C5: in the transfer function of a propagation, a sample with a negative
\* radicand is a finite positive real factor (never NaN), and a sample with
\* a radicand >= 0 has magnitude 1.
C5_TransferFunction ==
    AngularRan =>
        \A s \in Samples(last.aux.h) :
            LET r == last.aux.radicand[s[1]][s[2]]
                h == last.aux.h[s[1]][s[2]]
            IN  IF r[1] < 0
                THEN ~IsCNaN(h) /\ h[2] = 0 /\ h[1] > 0
                ELSE AbsSq(h) = <<1, 1>>

\* C6: propagation by z = 0 leaves the field equal to the field before the
\* call, on every grid.
C6_ZeroDistanceIdentity ==
    (AngularRan /\ last.arg.z = 0) => field = last.pre.field

\* C7: the shape of the field equals the shape of area.coordinate_grid in
\* every reachable state.
C7_ShapeInvariant == alive => Shape(field) = <<area.rows, area.cols>>

\* C8: get_wrapped_phase(aperture) with an aperture calls modify_aperture on
\* it exactly once and returns the stored wrapped phase times the mask as it
\* is after that call; without an aperture no aperture is touched and the
\* stored wrapped phase is returned as it is.
C8_WrappedPhaseUsesAdaptedMask ==
    last.op = "get_wrapped_phase" =>
        IF Truthy(last.arg)
        THEN /\ apertures[last.arg].calls = last.pre[last.arg].calls + 1
             /\ \A id \in ApertureIds \ {last.arg} : apertures[id] = last.pre[id]
             /\ last.ret = BroadcastMul(phase, apertures[last.arg].aperture)
        ELSE apertures = last.pre /\ last.ret = phase

\* C8 witness: a call with an aperture whose mask the adaptation changed, so
\* that the mask before the call would have given another result.
C8_Witness ==
    /\ last.op = "get_wrapped_phase"
    /\ Truthy(last.arg)
    /\ apertures[last.arg].aperture # last.pre[last.arg].aperture
    /\ last.ret # BroadcastMul(phase, last.pre[last.arg].aperture)

\* C9: get_unwrapped_phase hands back the aperture it was given, whose mask
\* after adaptation masked the phase; get_wavefront_radius adapts the
\* aperture exactly once and takes sagitta and diameter from the aperture
\* as it is after that adaptation.
C9_RadiusUsesAdaptedAperture ==
    /\ last.op = "get_unwrapped_phase" =>
          /\ last.ret[2] = last.arg
          /\ Truthy(last.arg) =>
                /\ apertures[last.arg].calls = last.pre[last.arg].calls + 1
                /\ last.ret[1] =
                      unwrap_phase(BroadcastMul(phase, apertures[last.arg].aperture))
    /\ (last.op = "get_wavefront_radius" /\ Truthy(last.arg)) =>
          /\ apertures[last.arg].calls = last.pre[last.arg].calls + 1
          /\ last.aux.cut_phase =
                unwrap_phase(BroadcastMul(phase, apertures[last.arg].aperture))
          /\ last.aux.sagitta = rad2mm(calc_amplitude(last.aux.cut_phase), wavelength)
          /\ last.aux.ap_diameter = m2mm(apertures[last.arg].aperture_diameter)
          /\ last.ret = calculate_radius(last.aux.sagitta, last.aux.ap_diameter)

\* C9 witness: a radius query whose adaptation changed both the mask and the
\* diameter of the aperture, with a finite radius as the result.
C9_Witness ==
    /\ last.op = "get_wavefront_radius"
    /\ Truthy(last.arg)
    /\ apertures[last.arg].aperture_diameter # last.pre[last.arg].aperture_diameter
    /\ apertures[last.arg].aperture # last.pre[last.arg].aperture
    /\ last.ret[2] # 0

\* C10: a read of the phase or intensity property returns angle(field) or
\* |field|^2 of the current field, whatever was written through the phase
\* and intensity setters.
C10_GettersDeriveFromField ==
    /\ last.op = "phase" => last.ret = AngleOf(field)
    /\ last.op = "intensity" => last.ret = AbsSqOf(field)

\* C10 witness: a phase read after a phase-setter write, returning something
\* other than the stored phase.
C10_Witness ==
    /\ last.op = "phase"
    /\ overridden
    /\ last.ret # phase

=============================================================================
